---------------------------- MODULE Spec2Model ----------------------------
(***************************************************************************)
(* Model of the manual-veh crate: src/lib.rs (Veh, Order, raw_add),        *)
(* src/raw.rs (get_module_handle, find_handlers, get_wrapped_function,     *)
(* VECTORED_HANDLER, add/remove_vectored_exception_handler) and            *)
(* src/raw_offset.rs (RawOffset::raw_add).                                 *)
(*                                                                         *)
(* Numbers.  An i32 is a TLA+ integer in MinI32..MaxI32.  An address is a  *)
(* little-endian sequence of 16-bit limbs, 2 limbs on the 32-bit target    *)
(* and 4 limbs on the 64-bit target, so that pointer arithmetic keeps its  *)
(* width.                                                                  *)
(***************************************************************************)
EXTENDS Integers, Sequences, FiniteSets, TLC

VARIABLES
    ptrWidth,     \* cfg(target_pointer_width): 32 or 64, fixed at build time
    checks,       \* the build's run-time checks: overflow checks, pointer-add precondition
    \* ---- the process image read by the resolution (read-only)
    process,      \* which process image the registry runs in (read-only memory)
    \* ---- one call of get_wrapped_function
    wrapper,      \* its argument `wrapper`, an address
    stubBytes,    \* the `size` bytes readable at `wrapper`
    unwrapped,    \* its outcome
    \* ---- one call of get_module_handle
    ldrList,      \* InInitializationOrderModuleList, in link order
    targetName,   \* its argument `name`
    located,      \* its outcome
    \* ---- the handler registry and the handles
    cache,        \* VECTORED_HANDLER: the OnceBox
    pc,           \* per thread: where it is inside add/remove
    call,         \* per thread: the call in progress and its arguments
    held,         \* per thread: the pointer loaded from / the box made for the OnceBox
    chain,        \* the process-wide vectored handler list of the OS
    vehs,         \* the live Veh values
    rawTokens,    \* tokens held by direct users of the raw module
    regs,         \* every registration made so far, by registration number
    ops,          \* number of calls started so far
    history       \* what the calls did

\* the build and the process: never written
buildVars == <<ptrWidth, checks, process>>
\* the variables of the single calls of the two pure functions
unwrapVars == <<wrapper, stubBytes, unwrapped>>
locateVars == <<ldrList, targetName, located>>

vars == <<buildVars, unwrapVars, locateVars, cache, pc, call, held, chain, vehs, rawTokens, regs, ops,
          history>>

----------------------------------------------------------------------------
(* Bounds of the model *)

\* longest byte buffer handed to the 64-bit get_wrapped_function
MaxWideSize == 6
\* longest run of bytes put in front of the 9-byte frames (32-bit variant)
MaxPad == 1
\* most modules in the loaded-module list
MaxModules == 2
\* number of threads calling into the registry
NumThreads == 2
\* number of add/remove calls started in one behaviour
MaxOps == 2

----------------------------------------------------------------------------
(* Fixed-width arithmetic *)

MaxI32 == 2147483647
MinI32 == -MaxI32 - 1
LimbMod == 256 * 256

\* i32::from_le_bytes([b1, b2, b3, b4])
I32FromLeBytes(b1, b2, b3, b4) ==
    LET top == IF b4 >= 128 THEN b4 - 256 ELSE b4
    IN  top * 16777216 + b3 * 65536 + b2 * 256 + b1

\* a + b on i32, b >= 0: the wrapped value and whether the addition overflowed
I32Add(a, b) ==
    IF a > MaxI32 - b
    THEN [ovf |-> TRUE,  val |-> MinI32 + ((a - (MaxI32 - b)) - 1)]
    ELSE [ovf |-> FALSE, val |-> a + b]

AddrLimbs(width) == width \div 16

\* `v as usize` for an i32 v: sign extension to the pointer width
I32AsUsize(v, width) ==
    [k \in 1..AddrLimbs(width) |->
        IF k = 1 THEN v % LimbMod
        ELSE IF k = 2 THEN (v \div LimbMod) % LimbMod
        ELSE IF v < 0 THEN LimbMod - 1 ELSE 0]

\* a small non-negative number as a usize
NatAsUsize(n, width) ==
    [k \in 1..AddrLimbs(width) |-> IF k = 1 THEN n ELSE 0]

RECURSIVE LimbSum(_, _, _, _)
LimbSum(a, b, k, carry) ==
    IF k > Len(a) THEN <<>>
    ELSE LET s == a[k] + b[k] + carry
         IN  <<s % LimbMod>> \o LimbSum(a, b, k + 1, s \div LimbMod)

\* a + b in address-width (wrapping) arithmetic
AddrAdd(a, b) == LimbSum(a, b, 1, 0)


----------------------------------------------------------------------------
(* Option<T> and the ways a call can end *)

None == [kind |-> "none"]
Some(a) == [kind |-> "some", addr |-> a]
\* a panic (arithmetic overflow check, unwrap on None/Err) or an abort raised
\* by a checked unsafe precondition
Panicked == [kind |-> "panic"]
Pending == [kind |-> "pending"]

----------------------------------------------------------------------------
(* Trampoline unwrapper: get_wrapped_function, raw.rs 115-154 *)

\* windows(9) on the 32-bit target, windows(5) on the 64-bit target
WindowLen(width) == IF width = 32 THEN 9 ELSE 5

\* the k-th byte (k = 1..WindowLen) of the window that enumerate() numbers
\* `index` (0-based)
WindowByte(bytes, index, k) == bytes[index + k]

\* &[0xE8, b1, b2, b3, b4, 0x5D, 0xC2, _, 0x00]
MatchesNarrow(bytes, index) ==
    /\ WindowByte(bytes, index, 1) = 232
    /\ WindowByte(bytes, index, 6) = 93
    /\ WindowByte(bytes, index, 7) = 194
    /\ WindowByte(bytes, index, 9) = 0

\* &[0xE9, b1, b2, b3, b4]
MatchesWide(bytes, index) == WindowByte(bytes, index, 1) = 233

Matches(bytes, index, width) ==
    IF width = 32 THEN MatchesNarrow(bytes, index) ELSE MatchesWide(bytes, index)

\* The lazy iterator chain ended by .next(): windows are pulled in ascending
\* index order and the first one the pattern accepts is the only one whose
\* arm is evaluated.  -1 when the iterator is exhausted.
RECURSIVE FirstMatch(_, _, _)
FirstMatch(bytes, width, index) ==
    IF index + WindowLen(width) > Len(bytes) THEN -1
    ELSE IF Matches(bytes, index, width) THEN index
    ELSE FirstMatch(bytes, width, index + 1)

\* i32::from_le_bytes([b1, b2, b3, b4]) + index as i32 + 5.  The two i32
\* additions panic on overflow in a build with overflow checks and wrap in a
\* build without: `ovf` says whether one of them overflowed, `val` is the
\* wrapped sum.
BranchOffset(bytes, index) ==
    LET d  == I32FromLeBytes(WindowByte(bytes, index, 2), WindowByte(bytes, index, 3),
                             WindowByte(bytes, index, 4), WindowByte(bytes, index, 5))
        s1 == I32Add(d, index)
        s2 == I32Add(s1.val, 5)
    IN  [ovf |-> s1.ovf \/ s2.ovf, val |-> s2.val]

\* whether a + b leaves the address space (a carry out of the top limb)
RECURSIVE LimbCarry(_, _, _, _)
LimbCarry(a, b, k, carry) ==
    IF k > Len(a) THEN carry
    ELSE LimbCarry(a, b, k + 1, (a[k] + b[k] + carry) \div LimbMod)

\* RawOffset::raw_add for *const T: (self as *const u8).add(count), with
\* count = `ravh as usize`.  ptr::add requires count <= isize::MAX and an
\* address that does not wrap; a sign-extended negative i32 breaks that
\* precondition: a build that checks it aborts, any other build yields the
\* wrapped address.
RawAdd(ptr, ravh, width, chk) ==
    LET count == I32AsUsize(ravh, width)
    IN  IF chk.ptr_add /\ (ravh < 0 \/ LimbCarry(ptr, count, 1, 0) # 0)
        THEN Panicked
        ELSE Some(AddrAdd(ptr, count))

\* get_wrapped_function(wrapper, size), `bytes` being the `size` bytes at
\* `wrapper`.  transmute_copy keeps the address.
GetWrappedFunction(ptr, bytes, width, chk) ==
    LET index == FirstMatch(bytes, width, 0)
    IN  IF index = -1 THEN None
        ELSE LET off == BranchOffset(bytes, index)
             IN  IF off.ovf /\ chk.overflow THEN Panicked
                 ELSE RawAdd(ptr, off.val, width, chk)

----------------------------------------------------------------------------
(* Module locator: get_module_handle, raw.rs 38-100 *)

\* char::to_uppercase on the characters the model uses: ASCII letters fold,
\* U+00DF (sharp s) becomes "SS", everything else used here is unchanged
UpperChar(c) ==
    IF c >= 97 /\ c <= 122 THEN <<c - 32>>
    ELSE IF c = 223 THEN <<83, 83>>
    ELSE <<c>>

\* str::to_uppercase
RECURSIVE ToUppercase(_)
ToUppercase(s) ==
    IF s = <<>> THEN <<>> ELSE UpperChar(Head(s)) \o ToUppercase(Tail(s))

IsHighSurrogate(u) == u >= 55296 /\ u <= 56319
IsLowSurrogate(u) == u >= 56320 /\ u <= 57343

\* OsString::from_wide(..).to_string_lossy(): a surrogate pair is one
\* character, an unpaired surrogate becomes U+FFFD
RECURSIVE ToStringLossy(_)
ToStringLossy(units) ==
    IF units = <<>> THEN <<>>
    ELSE IF IsHighSurrogate(units[1]) /\ Len(units) >= 2 /\ IsLowSurrogate(units[2])
    THEN <<65536 + (units[1] - 55296) * 1024 + (units[2] - 56320)>>
             \o ToStringLossy(Tail(Tail(units)))
    ELSE IF IsHighSurrogate(units[1]) \/ IsLowSurrogate(units[1])
    THEN <<65533>> \o ToStringLossy(Tail(units))
    ELSE <<units[1]>> \o ToStringLossy(Tail(units))

\* Addresses of the list: 0 is list_base (the list head inside the loader
\* data), k >= 1 the link field of the k-th module record.
ListBase == 0

\* *(current as *const *const u8): the forward link stored at `current`
Flink(list, current) == IF current = Len(list) THEN ListBase ELSE current + 1

\* EntryName that leaves the record's name in the case it is stored in
EntryNameAsStored(entry) ==
    ToStringLossy(
        SubSeq(entry.BaseDllName.buffer, 1, entry.BaseDllName.bytes_length \div 2))

\* slice::from_raw_parts(name.buffer, bytes_length / 2), decoded and uppercased
EntryName(entry) ==
    ToUppercase(ToStringLossy(
        SubSeq(entry.BaseDllName.buffer, 1, entry.BaseDllName.bytes_length \div 2)))

\* WalkModules without the break at the match: it walks on until the link
\* returns to the list head and keeps the last match
WalkModulesToEnd(list, target_name, current, visited) ==
    LET rest == {k \in (current + 1)..Len(list) : EntryName(list[k]) = target_name}
        seen == visited \o [k \in 1..(Len(list) - current) |-> current + k]
    IN  IF rest = {} THEN [kind |-> "none", visited |-> seen]
        ELSE [kind |-> "some",
              addr |-> list[CHOOSE k \in rest : \A j \in rest : j <= k].DllBase,
              visited |-> seen]

\* the loop of get_module_handle from `current` on; `visited` are the records
\* whose name has been read so far
RECURSIVE WalkModules(_, _, _, _)
WalkModules(list, target_name, current, visited) ==
    LET next == Flink(list, current)
    IN  IF next = ListBase THEN [kind |-> "none", visited |-> visited]
        ELSE IF EntryName(list[next]) = target_name
        THEN [kind |-> "some", addr |-> list[next].DllBase,
              visited |-> Append(visited, next)]
        ELSE WalkModules(list, target_name, next, Append(visited, next))

GetModuleHandle(list, name) == WalkModules(list, ToUppercase(name), ListBase, <<>>)

----------------------------------------------------------------------------
(* The process image the resolution reads *)

\* "ntdll.dll", as a &str and as UTF-16 code units
NtdllName == <<110, 116, 100, 108, 108, 46, 100, 108, 108>>
\* "KERNEL32.DLL"
Kernel32Name == <<75, 69, 82, 78, 69, 76, 51, 50, 46, 68, 76, 76>>

RAVCH == "RtlAddVectoredContinueHandler"
RRVCH == "RtlRemoveVectoredContinueHandler"

\* the scan bound find_handlers passes to get_wrapped_function (0x50)
ScanBound == 80

\* the handler_type the registration call passes
HandlerType == 0

\* the handler_type the unregistration call passes
RemoveHandlerType == 0

\* load address of the k-th image
ModuleBase(k, width) ==
    IF width = 32 THEN <<0, 30464 + k>> ELSE <<0, 4096 * k, 32762, 0>>

UnicodeString(units) == [bytes_length |-> 2 * Len(units), buffer |-> units]

LdrEntry(k, units, width) ==
    [DllBase |-> ModuleBase(k, width), BaseDllName |-> UnicodeString(units)]

\* an address inside ntdll
InNtdll(offset, width) == AddrAdd(ModuleBase(1, width), NatAsUsize(offset, width))

AddStub(width) == InNtdll(4096, width)
RemoveStub(width) == InNtdll(4352, width)
\* RtlpAddVectoredHandler and RtlpRemoveVectoredHandler
RtlpAdd(width) == InNtdll(12288, width)
RtlpRemove(width) == InNtdll(2048, width)

I32ToLeBytes(d) ==
    <<d % 256, (d \div 256) % 256, (d \div 65536) % 256, (d \div 16777216) % 256>>

\* `code` followed by int3 padding up to the scan bound
StubBytes(code) == code \o [k \in 1..(ScanBound - Len(code)) |-> 204]

\* RtlAddVectoredContinueHandler as ntdll ships it:
\*   64-bit: mov r8d, 1 ; jmp RtlpAddVectoredHandler
\*   32-bit: mov edi, edi ; push ebp ; mov ebp, esp ; push 1 ; push [ebp+0C] ;
\*           push [ebp+8] ; call RtlpAddVectoredHandler ; pop ebp ; ret 8
AddStubCode(width) ==
    IF width = 32
    THEN <<139, 255, 85, 139, 236, 106, 1, 255, 117, 12, 255, 117, 8, 232>>
             \o I32ToLeBytes(12288 - 4096 - 13 - 5) \o <<93, 194, 8, 0>>
    ELSE <<65, 184, 1, 0, 0, 0, 233>> \o I32ToLeBytes(12288 - 4096 - 6 - 5)

\* RtlRemoveVectoredContinueHandler: the internal function lies below the stub,
\* so the displacement is negative
RemoveStubCode(width) ==
    IF width = 32
    THEN <<139, 255, 85, 139, 236, 106, 1, 255, 117, 8, 232>>
             \o I32ToLeBytes(2048 - 4352 - 10 - 5) \o <<93, 194, 4, 0>>
    ELSE <<186, 1, 0, 0, 0, 233>> \o I32ToLeBytes(2048 - 4352 - 5 - 5)

\* a stub that was rewritten: no branch of the expected shape
HookedStubCode == <<255, 37, 0, 0, 0, 0, 144, 144>>

\* a branch of the expected shape, to offset 0x1000 from its end
BranchCode(width) ==
    IF width = 32 THEN <<232, 0, 16, 0, 0, 93, 194, 8, 0>> ELSE <<233, 0, 16, 0, 0>>

\* The memory at a rewritten stub: the bytes of the stub, and from the first
\* offset whose window no longer fits in the scan bound, a branch of the
\* expected shape (the code that follows in ntdll).
HookedStubMemory(width) ==
    SubSeq(StubBytes(HookedStubCode), 1, ScanBound - WindowLen(width) + 1)
        \o BranchCode(width)

ImageKinds == {"good", "no_export_add", "no_export_remove",
               "no_pattern_add", "no_pattern_remove"}

ProcessImage(kind, width) ==
    [base    |-> ModuleBase(1, width),
     exports |-> [n \in {RAVCH, RRVCH}
                        \ (IF kind = "no_export_add" THEN {RAVCH}
                           ELSE IF kind = "no_export_remove" THEN {RRVCH} ELSE {})
                  |-> IF n = RAVCH THEN AddStub(width) ELSE RemoveStub(width)],
     memory  |-> [a \in {AddStub(width), RemoveStub(width)} |->
                    IF a = AddStub(width)
                    THEN IF kind = "no_pattern_add" THEN HookedStubMemory(width)
                         ELSE StubBytes(AddStubCode(width))
                    ELSE IF kind = "no_pattern_remove" THEN HookedStubMemory(width)
                         ELSE StubBytes(RemoveStubCode(width))]]

\* the loaded-module list, with or without ntdll
LoadedModules(withNtdll, width) ==
    IF withNtdll
    THEN <<LdrEntry(2, Kernel32Name, width), LdrEntry(1, NtdllName, width)>>
    ELSE <<LdrEntry(2, Kernel32Name, width)>>

\* The processes the registry is run in: the image of ntdll and whether ntdll
\* is in the loaded-module list.  Their memory is read-only.
Processes == [image : ImageKinds, ntdll : BOOLEAN]
Image(p, width) == ProcessImage(p.image, width)
Modules(p, width) == LoadedModules(p.ntdll, width)
NoProcess == [image |-> "none", ntdll |-> FALSE]

----------------------------------------------------------------------------
(* find_handlers, raw.rs 105-175 *)

\* PeView::module(base).get_proc_address(name)
GetProcAddress(img, base, name) ==
    IF base = img.base /\ name \in DOMAIN img.exports
    THEN Some(img.exports[name]) ELSE None

\* ReadBytes that takes one window length more than `size`
ReadBytesPastSize(img, addr, size) ==
    SubSeq(img.memory[addr], 1, IF size + 4 <= Len(img.memory[addr]) THEN size + 4
                                ELSE Len(img.memory[addr]))

\* std::slice::from_raw_parts(wrapper, size)
ReadBytes(img, addr, size) == SubSeq(img.memory[addr], 1, size)

Fatal(steps) == [kind |-> "panic", steps |-> steps]

\* find_handlers that gives up at a stub without the pattern before it scans
\* the other stub
FindHandlersStopAtMiss(list, img, width, chk) ==
    LET m == GetModuleHandle(list, NtdllName)
    IN
    IF m.kind = "none" THEN Fatal(<<"module">>)
    ELSE
    LET ravch == GetProcAddress(img, m.addr, RAVCH)
    IN
    IF ravch.kind = "none" THEN Fatal(<<"module", "export_add">>)
    ELSE
    LET rrvch == GetProcAddress(img, m.addr, RRVCH)
    IN
    IF rrvch.kind = "none"
    THEN Fatal(<<"module", "export_add", "export_remove">>)
    ELSE
    LET ra == GetWrappedFunction(ravch.addr,
                                 ReadBytes(img, ravch.addr, ScanBound), width, chk)
    IN
    IF ra.kind # "some"
    THEN Fatal(<<"module", "export_add", "export_remove", "scan_add">>)
    ELSE
    LET rr == GetWrappedFunction(rrvch.addr,
                                 ReadBytes(img, rrvch.addr, ScanBound), width, chk)
        all == <<"module", "export_add", "export_remove", "scan_add", "scan_remove">>
    IN
    IF rr.kind = "some"
    THEN [kind |-> "some", steps |-> all, add |-> ra.addr, remove |-> rr.addr]
    ELSE Fatal(all)

\* One run of find_handlers: the pair it returns, or the panic it ends in, and
\* the lookup steps it executed, in order.
FindHandlers(list, img, width, chk) ==
    LET m == GetModuleHandle(list, NtdllName)
    IN
    IF m.kind = "none" THEN Fatal(<<"module">>)     \* .unwrap() on None, line 172
    ELSE
    LET ravch == GetProcAddress(img, m.addr, RAVCH)
    IN
    IF ravch.kind = "none" THEN Fatal(<<"module", "export_add">>)      \* line 157
    ELSE
    LET rrvch == GetProcAddress(img, m.addr, RRVCH)
    IN
    IF rrvch.kind = "none"
    THEN Fatal(<<"module", "export_add", "export_remove">>)            \* line 158
    ELSE
    LET ra == GetWrappedFunction(ravch.addr,
                                 ReadBytes(img, ravch.addr, ScanBound), width, chk)
    IN
    IF ra.kind = "panic"
    THEN Fatal(<<"module", "export_add", "export_remove", "scan_add">>)
    ELSE
    LET rr == GetWrappedFunction(rrvch.addr,
                                 ReadBytes(img, rrvch.addr, ScanBound), width, chk)
        all == <<"module", "export_add", "export_remove", "scan_add", "scan_remove">>
    IN
    IF rr.kind = "some" /\ ra.kind = "some"
    THEN [kind |-> "some", steps |-> all, add |-> ra.addr, remove |-> rr.addr]
    ELSE Fatal(all)                 \* scan panicked, or .unwrap() on None, line 172

----------------------------------------------------------------------------
(* The handler chain of the operating system, reached through the two       *)
(* resolved pointers (FnRtlpAddVectoredHandler, FnRtlpRemoveVectoredHandler) *)

\* the address of a freed list entry can be handed out again
RECURSIVE FreeTokenFrom(_, _)
FreeTokenFrom(ch, k) ==
    IF \E i \in 1..Len(ch) : ch[i].token = k THEN FreeTokenFrom(ch, k + 1) ELSE k

FreeToken(ch) == FreeTokenFrom(ch, 1)

\* RtlpAddVectoredHandler(FirstHandler, VectoredHandler, handler_type): a new
\* entry at the head of the list when FirstHandler is non-zero, else at the tail
OsAdd(ch, first_handler, vectored_handler, id) ==
    LET e == [token |-> FreeToken(ch), handler |-> vectored_handler, id |-> id]
    IN  IF first_handler # 0 THEN <<e>> \o ch ELSE Append(ch, e)

\* RtlpRemoveVectoredHandler(VectoredHandlerHandle, handler_type): unlinks the
\* entry at that address, if there is one
OsRemove(ch, token) == SelectSeq(ch, LAMBDA e : e.token # token)

\* Handler 1 recognises the exception and returns EXCEPTION_CONTINUE_EXECUTION
\* (as tests::handler_executed's handler does); handler 2 notes it and returns
\* EXCEPTION_CONTINUE_SEARCH.
Handlers == {1, 2}
ContinuesExecution(handler) == handler = 1

\* Exception dispatch: the entries are called in list order until one returns
\* EXCEPTION_CONTINUE_EXECUTION.  Invoked(chain) are the registrations an
\* exception raised in the current state calls, in order.
RECURSIVE Invoked(_)
Invoked(ch) ==
    IF ch = <<>> THEN <<>>
    ELSE IF ContinuesExecution(Head(ch).handler) THEN <<Head(ch).id>>
    ELSE <<Head(ch).id>> \o Invoked(Tail(ch))

----------------------------------------------------------------------------
(* Handler registry (raw.rs 102, 177-186) and scoped handle (lib.rs) *)

Threads == 1..NumThreads
\* the direct registrations tried: a front-of-chain handler that ends the
\* dispatch
RawAdds == {[first |-> TRUE, handler |-> 1]}
Orders == {"First", "Last"}

\* the OnceBox holds no box / a thread holds no pointer
Unset == [set |-> FALSE]
NoCall == [op |-> "none"]
NullToken == 0

\* raw_add with the two arms exchanged
OrderToFirstHandlerSwapped(order) == order = "Last"

\* raw_add, lib.rs 116-122: Order::First => true, Order::Last => false
OrderToFirstHandler(order) == order = "First"

\* BoolAsLong with the two values exchanged
BoolAsLongInverted(b) == IF b THEN 0 ELSE 1

\* `first_handler as _`: bool to LONG
BoolAsLong(b) == IF b THEN 1 ELSE 0

NewCall(op, via, first, order, handler, token, veh) ==
    [op |-> op, via |-> via, first |-> first, order |-> order,
     handler |-> handler, token |-> token, veh |-> veh,
     ready |-> cache.set,   \* whether the cache was Ready when the call started
     runs |-> 0]            \* times this call ran find_handlers

\* OnceBoxLoad without the null test: the initializer runs on every call
OnceBoxLoadNoCheck(t, c) ==
    /\ pc[t] = "idle"
    /\ ops < MaxOps
    /\ ops' = ops + 1
    /\ call' = [call EXCEPT ![t] = c]
    /\ held' = [held EXCEPT ![t] = cache]
    /\ pc' = [pc EXCEPT ![t] = "init"]
    /\ UNCHANGED <<buildVars, unwrapVars, locateVars, cache, chain, regs, history>>

\* A call enters add_vectored_exception_handler or
\* remove_vectored_exception_handler and get_or_init loads the pointer of the
\* OnceBox; a null pointer sends the caller into the initializer.
OnceBoxLoad(t, c) ==
    /\ pc[t] = "idle"
    /\ ops < MaxOps
    /\ ops' = ops + 1
    /\ call' = [call EXCEPT ![t] = c]
    /\ held' = [held EXCEPT ![t] = cache]
    /\ pc' = [pc EXCEPT ![t] = IF cache.set THEN "forward" ELSE "init"]
    /\ UNCHANGED <<buildVars, unwrapVars, locateVars, cache, chain, regs, history>>

\* Veh::add / Veh::add_raw(order, handler), through raw_add
VehAdd(t, order, handler) ==
    /\ OnceBoxLoad(t, NewCall("add", "veh", OrderToFirstHandler(order), order,
                              handler, NullToken, 0))
    /\ UNCHANGED <<vehs, rawTokens>>

\* raw::add_vectored_exception_handler(first_handler, vectored_handler) called
\* directly
RawAddCall(t, first_handler, handler) ==
    /\ OnceBoxLoad(t, NewCall("add", "raw", first_handler, "none", handler,
                              NullToken, 0))
    /\ UNCHANGED <<vehs, rawTokens>>

\* VehDrop that hands over a null pointer instead of the stored token
VehDropNull(t, v) ==
    /\ v \in vehs
    /\ v.thread = t
    /\ OnceBoxLoad(t, NewCall("remove", "veh", FALSE, "none", 0, NullToken, v.id))
    /\ vehs' = vehs \ {v}
    /\ UNCHANGED rawTokens

\* a drop that unregisters nothing
VehDropForget(t, v) ==
    /\ v \in vehs
    /\ v.thread = t
    /\ pc[t] = "idle"
    /\ ops < MaxOps
    /\ ops' = ops + 1
    /\ vehs' = vehs \ {v}
    /\ UNCHANGED <<buildVars, unwrapVars, locateVars, cache, pc, call, held, chain,
                   rawTokens, regs, history>>

\* Drop for Veh: remove_vectored_exception_handler(self.0).  A Veh holds a raw
\* pointer, so it is neither Send nor Sync: the thread that built it drops it.
VehDrop(t, v) ==
    /\ v \in vehs
    /\ v.thread = t
    /\ OnceBoxLoad(t, NewCall("remove", "veh", FALSE, "none", 0, v.token, v.id))
    /\ vehs' = vehs \ {v}
    /\ UNCHANGED rawTokens

\* raw::remove_vectored_exception_handler(token) called directly, with a token
\* a direct add returned to this thread's caller or with a null pointer
RawRemoveCall(t, token) ==
    /\ token \in rawTokens \cup {NullToken}
    /\ OnceBoxLoad(t, NewCall("remove", "raw", FALSE, "none", 0, token, 0))
    /\ rawTokens' = rawTokens \ {token}
    /\ UNCHANGED vehs

BuildChecks == [overflow : BOOLEAN, ptr_add : BOOLEAN]

\* the builds the registry is run in
Builds == {[width |-> 32, checks |-> [overflow |-> TRUE, ptr_add |-> FALSE]],
           [width |-> 64, checks |-> [overflow |-> FALSE, ptr_add |-> FALSE]],
           [width |-> 64, checks |-> [overflow |-> TRUE, ptr_add |-> TRUE]]}

\* find_handlers reads only the build's own code and the read-only image of
\* the process: the outcome of a run of it, for each build and process
Resolution ==
    {[build |-> b, process |-> p,
      result |-> FindHandlers(Modules(p, b.width), Image(p, b.width), b.width,
                              b.checks)] : b \in Builds, p \in Processes}

\* the run of find_handlers in this build and process
ThisResolution ==
    (CHOOSE r \in Resolution :
        r.build = [width |-> ptrWidth, checks |-> checks] /\ r.process = process).result

\* RunFindHandlers where a failed resolution is remembered in the cache
RunFindHandlersPoison(t) ==
    /\ pc[t] = "init"
    /\ \E r \in {ThisResolution} :
           /\ history' = [resolutions |-> history.resolutions + 1, steps |-> r.steps]
           /\ call' = [call EXCEPT ![t].runs = @ + 1]
           /\ IF r.kind = "some"
              THEN /\ held' = [held EXCEPT ![t] =
                                  [set |-> TRUE, owner |-> t,
                                   add |-> r.add, remove |-> r.remove]]
                   /\ pc' = [pc EXCEPT ![t] = "cas"]
                   /\ cache' = cache
              ELSE /\ held' = held
                   /\ pc' = [pc EXCEPT ![t] = "panicked"]
                   /\ cache' = [set |-> TRUE, owner |-> t, add |-> <<>>,
                                remove |-> <<>>]
    /\ UNCHANGED <<buildVars, unwrapVars, locateVars, chain, vehs, rawTokens, regs,
                   ops>>

\* RunFindHandlers whose caller goes on with the box it built, without the
\* exchange that stores it
RunFindHandlersNoStore(t) ==
    /\ pc[t] = "init"
    /\ \E r \in {ThisResolution} :
           /\ history' = [resolutions |-> history.resolutions + 1, steps |-> r.steps]
           /\ call' = [call EXCEPT ![t].runs = @ + 1]
           /\ IF r.kind = "some"
              THEN /\ held' = [held EXCEPT ![t] =
                                  [set |-> TRUE, owner |-> t,
                                   add |-> r.add, remove |-> r.remove]]
                   /\ pc' = [pc EXCEPT ![t] = "forward"]
              ELSE /\ held' = held
                   /\ pc' = [pc EXCEPT ![t] = "panicked"]
    /\ UNCHANGED <<buildVars, unwrapVars, locateVars, cache, chain, vehs, rawTokens, regs, ops>>

\* the initializer find_handlers runs in the calling thread; a panic unwinds
\* the call
RunFindHandlers(t) ==
    /\ pc[t] = "init"
    /\ \E r \in {ThisResolution} :
           /\ history' = [resolutions |-> history.resolutions + 1, steps |-> r.steps]
           /\ call' = [call EXCEPT ![t].runs = @ + 1]
           /\ IF r.kind = "some"
              THEN /\ held' = [held EXCEPT ![t] =
                                  [set |-> TRUE, owner |-> t,
                                   add |-> r.add, remove |-> r.remove]]
                   /\ pc' = [pc EXCEPT ![t] = "cas"]
              ELSE /\ held' = held
                   /\ pc' = [pc EXCEPT ![t] = "panicked"]
    /\ UNCHANGED <<buildVars, unwrapVars, locateVars, cache, chain, vehs, rawTokens, regs, ops>>

\* OnceBoxCas that never stores: every caller goes on with the box it built
OnceBoxCasNoStore(t) ==
    /\ pc[t] = "cas"
    /\ pc' = [pc EXCEPT ![t] = "forward"]
    /\ UNCHANGED <<buildVars, unwrapVars, locateVars, cache, held, call, chain, vehs,
                   rawTokens, regs, ops, history>>

\* OnceBoxCas where the loser of the exchange waits for the slot to be free
\* again instead of taking the stored pointer
OnceBoxCasLoserWaits(t) ==
    /\ pc[t] = "cas"
    /\ ~cache.set
    /\ cache' = held[t]
    /\ pc' = [pc EXCEPT ![t] = "forward"]
    /\ UNCHANGED <<buildVars, unwrapVars, locateVars, held, call, chain, vehs,
                   rawTokens, regs, ops, history>>

\* OnceBoxCas where the loser of the exchange goes on with its own box
OnceBoxCasKeepOwn(t) ==
    /\ pc[t] = "cas"
    /\ cache' = IF cache.set THEN cache ELSE held[t]
    /\ pc' = [pc EXCEPT ![t] = "forward"]
    /\ UNCHANGED <<buildVars, unwrapVars, locateVars, held, call, chain, vehs,
                   rawTokens, regs, ops, history>>

\* OnceBox::get_or_init, second half: compare_exchange(null, box); the loser
\* drops its own box and takes the pointer that is stored
OnceBoxCas(t) ==
    /\ pc[t] = "cas"
    /\ IF cache.set
       THEN /\ held' = [held EXCEPT ![t] = cache]
            /\ cache' = cache
       ELSE /\ cache' = held[t]
            /\ held' = held
    /\ pc' = [pc EXCEPT ![t] = "forward"]
    /\ UNCHANGED <<buildVars, unwrapVars, locateVars, call, chain, vehs, rawTokens, regs, ops,
                   history>>

\* (VECTORED_HANDLER.get_or_init(find_handlers).add)(first_handler as _,
\*                                                   vectored_handler, 0)
\* and the return of the call: Veh(token, PhantomData) is built from the
\* returned pointer, a direct caller keeps it.  A Veh registration gets the
\* next registration number; the entry of a direct registration is numbered 0.
ForwardAdd(t) ==
    /\ pc[t] = "forward"
    /\ call[t].op = "add"
    /\ IF held[t].add = RtlpAdd(ptrWidth)
       THEN LET id == IF call[t].via = "veh" THEN Len(regs) + 1 ELSE 0
                token == FreeToken(chain)
            IN  /\ chain' = OsAdd(chain, BoolAsLong(call[t].first),
                                  call[t].handler, id)
                /\ regs' = IF call[t].via = "veh"
                           THEN Append(regs, [token |-> token,
                                              order |-> call[t].order,
                                              handler |-> call[t].handler,
                                              first |-> BoolAsLong(call[t].first),
                                              type |-> HandlerType,
                                              removes |-> <<>>])
                           ELSE regs
                /\ vehs' = IF call[t].via = "veh"
                           THEN vehs \cup {[id |-> id, token |-> token, thread |-> t]}
                           ELSE vehs
                /\ rawTokens' = IF call[t].via = "raw"
                                THEN rawTokens \cup {token}
                                ELSE rawTokens
                /\ pc' = [pc EXCEPT ![t] = "idle"]
                /\ call' = [call EXCEPT ![t] = NoCall]
                /\ held' = [held EXCEPT ![t] = Unset]
       ELSE \* a call through a pointer that is not the function
            /\ pc' = [pc EXCEPT ![t] = "crashed"]
            /\ UNCHANGED <<chain, regs, vehs, rawTokens, call, held>>
    /\ UNCHANGED <<buildVars, unwrapVars, locateVars, cache, ops, history>>

\* ForwardRemove that calls through the `add` field of the pair
ForwardRemoveThroughAdd(t) ==
    /\ pc[t] = "forward"
    /\ call[t].op = "remove"
    /\ IF held[t].add = RtlpRemove(ptrWidth)
       THEN /\ chain' = OsRemove(chain, call[t].token)
            /\ pc' = [pc EXCEPT ![t] = "idle"]
            /\ call' = [call EXCEPT ![t] = NoCall]
            /\ held' = [held EXCEPT ![t] = Unset]
       ELSE /\ pc' = [pc EXCEPT ![t] = "crashed"]
            /\ UNCHANGED <<chain, call, held>>
    /\ UNCHANGED <<buildVars, unwrapVars, locateVars, cache, vehs, rawTokens, regs,
                   ops, history>>

\* (VECTORED_HANDLER.get_or_init(find_handlers).remove)(vectored_handler, 0)
\* and the return of the call
ForwardRemove(t) ==
    /\ pc[t] = "forward"
    /\ call[t].op = "remove"
    /\ IF held[t].remove = RtlpRemove(ptrWidth)
       THEN /\ chain' = OsRemove(chain, call[t].token)
            /\ regs' = IF call[t].via = "veh"
                       THEN [regs EXCEPT ![call[t].veh].removes =
                                Append(@, [token |-> call[t].token,
                                           type |-> RemoveHandlerType])]
                       ELSE regs
            /\ pc' = [pc EXCEPT ![t] = "idle"]
            /\ call' = [call EXCEPT ![t] = NoCall]
            /\ held' = [held EXCEPT ![t] = Unset]
       ELSE /\ pc' = [pc EXCEPT ![t] = "crashed"]
            /\ UNCHANGED <<chain, regs, call, held>>
    /\ UNCHANGED <<buildVars, unwrapVars, locateVars, cache, vehs, rawTokens, ops,
                   history>>

RegistryIdle ==
    /\ cache = Unset
    /\ pc = [t \in Threads |-> "idle"]
    /\ call = [t \in Threads |-> NoCall]
    /\ held = [t \in Threads |-> Unset]
    /\ chain = <<>>
    /\ vehs = {}
    /\ rawTokens = {}
    /\ regs = <<>>
    /\ ops = 0
    /\ history = [resolutions |-> 0, steps |-> <<>>]

UnwrapIdle == wrapper = <<>> /\ stubBytes = <<>> /\ unwrapped = Pending

LocateIdle == ldrList = <<>> /\ targetName = <<>> /\ located = Pending

Init ==
    /\ \E b \in Builds : ptrWidth = b.width /\ checks = b.checks
    /\ process \in Processes
    /\ RegistryIdle
    /\ UnwrapIdle
    /\ LocateIdle

Next ==
    \/ \E t \in Threads, o \in Orders, h \in Handlers : VehAdd(t, o, h)
    \/ \E t \in Threads, a \in RawAdds : RawAddCall(t, a.first, a.handler)
    \/ \E t \in Threads, v \in vehs : VehDrop(t, v)
    \/ \E t \in Threads, k \in rawTokens \cup {NullToken} : RawRemoveCall(t, k)
    \/ \E t \in Threads : RunFindHandlers(t)
    \/ \E t \in Threads : OnceBoxCas(t)
    \/ \E t \in Threads : ForwardAdd(t)
    \/ \E t \in Threads : ForwardRemove(t)

Spec == Init /\ [][Next]_vars

\* the next step of the call thread t is in: the initializer, the exchange on
\* the OnceBox, or the forwarding call
CallStep(t) ==
    RunFindHandlers(t) \/ OnceBoxCas(t) \/ ForwardAdd(t) \/ ForwardRemove(t)

\* A thread inside a call keeps running: the steps of a call are straight-line
\* code of the calling thread, and race::OnceBox takes no lock and never waits
\* for another thread.  Whether a caller starts a call at all is left open.
FairSpec == Spec /\ \A t \in Threads : WF_vars(CallStep(t))

----------------------------------------------------------------------------
(* get_wrapped_function on its own: one call on a buffer drawn from a        *)
(* bounded set                                                               *)

\* 0xE9, 0x00, 0xFF, 0x7F: the opcode and the bytes of the displacements
\* 0, -1, 0x7FFFFFFF and their mixtures
WideBytes == {233, 0, 255, 127}

WideBuffers == UNION {[1..n -> WideBytes] : n \in 0..MaxWideSize}

\* One 9-byte frame of the 32-bit shape, right or wrong in each place.  The
\* wrong values are chosen so that a window that starts one byte early can
\* match too.
NarrowDisps == {<<16, 0, 0, 0>>, <<240, 255, 255, 255>>,
                <<255, 255, 255, 127>>, <<0, 0, 0, 93>>}

NarrowFrames ==
    {<<op>> \o d \o <<e1, e2, any, z>> :
        op \in {232, 144}, d \in NarrowDisps, e1 \in {93, 194},
        e2 \in {194, 0}, any \in {8, 0}, z \in {0, 1}}

\* a well-formed call / pop ebp / ret 8 sequence
NarrowTail == <<232, 32, 0, 0, 0, 93, 194, 8, 0>>

NarrowPads == UNION {[1..n -> {232, 144}] : n \in 0..MaxPad}

NarrowBuffers ==
    {p \o f \o t : p \in NarrowPads, f \in NarrowFrames, t \in {<<>>, NarrowTail}}
        \cup NarrowPads

\* where the stub lies: inside ntdll, and at the very top of the address space
StubAddresses(width) ==
    {AddStub(width), [k \in 1..AddrLimbs(width) |-> IF k = 1 THEN 65520 ELSE 65535]}

InitUnwrap ==
    /\ ptrWidth \in {32, 64}
    /\ checks \in BuildChecks
    /\ process = NoProcess
    /\ wrapper \in StubAddresses(ptrWidth)
    /\ stubBytes \in (IF ptrWidth = 64 THEN WideBuffers ELSE NarrowBuffers)
    /\ unwrapped = Pending
    /\ LocateIdle
    /\ RegistryIdle

registryVars == <<cache, pc, call, held, chain, vehs, rawTokens, regs, ops, history>>

\* The memory at `wrapper`: the `size` bytes the call is given, and behind
\* them the end of a branch window that started inside them and one more
\* whole branch.
MemoryAt(addr, bytes, width) ==
    [memory |-> [a \in {addr} |->
                    bytes \o SubSeq(BranchCode(width), 2, WindowLen(width))
                          \o BranchCode(width)]]

\* get_wrapped_function(wrapper, size) with size = Len(stubBytes)
Unwrap ==
    /\ unwrapped = Pending
    /\ unwrapped' = GetWrappedFunction(
                        wrapper,
                        ReadBytes(MemoryAt(wrapper, stubBytes, ptrWidth), wrapper,
                                  Len(stubBytes)),
                        ptrWidth, checks)
    /\ UNCHANGED <<buildVars, wrapper, stubBytes, locateVars, registryVars>>

SpecUnwrap == InitUnwrap /\ [][Unwrap]_vars

----------------------------------------------------------------------------
(* get_module_handle on its own: one call on a loaded-module list drawn from *)
(* a bounded set                                                             *)

\* BaseDllName of the records: "n", "N", "nt", "NT", sharp s, "ss", one
\* character outside the basic plane (a surrogate pair), and "n" stored in a
\* buffer that goes on after the string's length
ModuleNames ==
    {UnicodeString(u) : u \in {<<110>>, <<78>>, <<110, 116>>, <<78, 84>>, <<223>>,
                               <<115, 115>>, <<55357, 56832>>}}
        \cup {[bytes_length |-> 2, buffer |-> <<110, 116>>]}

\* the names asked for: "n", "Nt", "NT", "SS", sharp s, U+1F600, "x", ""
TargetNames == {<<110>>, <<78, 116>>, <<78, 84>>, <<83, 83>>, <<223>>,
                <<128512>>, <<120>>, <<>>}

\* well-formed lists: the k-th record in link order is loaded at its own base
ModuleLists(width) ==
    UNION {{[k \in 1..n |-> [DllBase |-> ModuleBase(k, width), BaseDllName |-> names[k]]] :
               names \in [1..n -> ModuleNames]} : n \in 0..MaxModules}

InitLocate ==
    /\ ptrWidth \in {32, 64}
    /\ checks = [overflow |-> FALSE, ptr_add |-> FALSE]
    /\ process = NoProcess
    /\ ldrList \in ModuleLists(ptrWidth)
    /\ targetName \in TargetNames
    /\ located = Pending
    /\ UnwrapIdle
    /\ RegistryIdle

Locate ==
    /\ located = Pending
    /\ located' = GetModuleHandle(ldrList, targetName)
    /\ UNCHANGED <<buildVars, unwrapVars, ldrList, targetName, registryVars>>

SpecLocate == InitLocate /\ [][Locate]_vars

----------------------------------------------------------------------------
(* Properties of the registry and the handles, checked under Spec *)

Range(f) == {f[i] : i \in 1..Len(f)}
Least(S) == CHOOSE x \in S : \A y \in S : x <= y
InCall(t) == call[t].op # "none"

\* the Veh registrations: alive, being dropped, dropped
VehIds == 1..Len(regs)
Live(id) == \E v \in vehs : v.id = id
Dropping(id) ==
    \E t \in Threads : call[t].op = "remove" /\ call[t].via = "veh" /\ call[t].veh = id
Dropped(id) == ~Live(id) /\ ~Dropping(id)

ChainIds == {chain[i].id : i \in 1..Len(chain)}
ChainPos(id) == CHOOSE i \in 1..Len(chain) : chain[i].id = id
InvokedPos(id) == CHOOSE i \in 1..Len(Invoked(chain)) : Invoked(chain)[i] = id

\* the process the resolution cannot succeed in: ntdll not loaded, an export
\* missing, or a stub without the branch pattern
Unresolvable == ~process.ntdll \/ process.image # "good"

C2_CachedPairFixedAndShared ==
    /\ [][cache.set => cache' = cache]_vars
    /\ [](\A t \in Threads : pc[t] = "forward" => cache.set /\ held[t] = cache)

\* a call that ran its own resolution and lost is about to forward through the
\* winner's pair
C2_Witness ==
    \E t \in Threads :
        pc[t] = "forward" /\ call[t].runs = 1 /\ cache.set /\ cache.owner # t

C5_FirstAheadOfLast ==
    \A v1 \in vehs, v2 \in vehs :
        (regs[v1.id].order = "First" /\ regs[v2.id].order = "Last") =>
            /\ v1.id \in ChainIds /\ v2.id \in ChainIds
            /\ ChainPos(v1.id) < ChainPos(v2.id)
            /\ v2.id \in Range(Invoked(chain)) =>
                   /\ v1.id \in Range(Invoked(chain))
                   /\ InvokedPos(v1.id) < InvokedPos(v2.id)

\* the Last Veh was constructed before the First Veh, and an exception invokes
\* both
C5_Witness ==
    \E v1 \in vehs, v2 \in vehs :
        /\ regs[v1.id].order = "First" /\ regs[v2.id].order = "Last"
        /\ v2.id < v1.id
        /\ Invoked(chain) = <<v1.id, v2.id>>

\* C6: if the resolution fails (module, either symbol or either pattern not
\* found) the initializing call ends in the panic without forwarding, and the
\* cache stays uninitialized: no partial pair, no failure marker.
C6_FailureLeavesNothing ==
    /\ Unresolvable =>
          /\ cache = Unset
          /\ chain = <<>> /\ regs = <<>> /\ vehs = {} /\ rawTokens = {}
          /\ \A t \in Threads : pc[t] \in {"idle", "init", "panicked"}
    /\ \A t \in Threads :
          pc[t] = "panicked" =>
              /\ cache = Unset /\ ~held[t].set
              /\ chain = <<>> /\ regs = <<>>
              /\ call[t].runs = 1

\* the resolution failed at its last step, the scan of the second stub, after
\* the first stub had been unwrapped
C6_Witness ==
    \E t \in Threads :
        /\ pc[t] = "panicked" /\ process.ntdll /\ process.image = "no_pattern_remove"
        /\ history.steps[Len(history.steps)] = "scan_remove"

\* C7: a call that starts once the cache is Ready does no module lookup,
\* export lookup or stub scan, and makes exactly one forwarding call, add into
\* the cached registration pointer and remove into the cached unregistration
\* pointer.
C7_ReadyCallsOnlyForward ==
    /\ [](\A t \in Threads :
            (InCall(t) /\ call[t].ready) =>
                /\ pc[t] = "forward" /\ call[t].runs = 0
                /\ cache.set /\ held[t] = cache)
    /\ [][\A t \in Threads :
            (InCall(t) /\ call[t].ready /\ pc'[t] # pc[t]) =>
                /\ pc'[t] = "idle" /\ ~InCall(t)' /\ history' = history
                /\ call[t].op = "add" =>
                      /\ cache.add = RtlpAdd(ptrWidth)
                      /\ chain' = OsAdd(chain, BoolAsLong(call[t].first),
                                        call[t].handler,
                                        IF call[t].via = "veh" THEN Len(regs) + 1 ELSE 0)
                /\ call[t].op = "remove" =>
                      /\ cache.remove = RtlpRemove(ptrWidth)
                      /\ chain' = OsRemove(chain, call[t].token)]_vars

\* a drop that started with the cache Ready is about to forward
C7_Witness ==
    \E t \in Threads :
        InCall(t) /\ call[t].ready /\ pc[t] = "forward" /\ call[t].op = "remove"
            /\ call[t].via = "veh"

----------------------------------------------------------------------------
(* Properties of get_wrapped_function, checked under SpecUnwrap *)

\* the offsets of the 5-byte windows that start with the jump opcode 0xE9
WideHits(bytes) == {i \in 0..(Len(bytes) - 5) : bytes[i + 1] = 233}

\* the offsets of the 9-byte windows of the shape
\* [0xE8, d0, d1, d2, d3, 0x5D, 0xC2, any, 0x00]
NarrowHits(bytes) ==
    {i \in 0..(Len(bytes) - 9) :
        /\ bytes[i + 1] = 232
        /\ bytes[i + 6] = 93 /\ bytes[i + 7] = 194
        /\ bytes[i + 9] = 0}

\* stub_address + offset_of_opcode + 5 + displacement, in the address space
BranchTarget(stub, bytes, i, width) ==
    AddrAdd(AddrAdd(stub, NatAsUsize(i + 5, width)),
            I32AsUsize(I32FromLeBytes(bytes[i + 2], bytes[i + 3], bytes[i + 4], bytes[i + 5]),
                       width))

\* C8, as stated: on 64-bit, for every buffer, the result of the unwrapper is
\* the target of the lowest-offset 5-byte window that starts with 0xE9,
\* stub_address + offset + 5 + displacement, and "not found" if no window
\* starts with 0xE9.
C8_WideTargetOfFirstJump ==
    (ptrWidth = 64 /\ unwrapped # Pending) =>
        unwrapped = IF WideHits(stubBytes) = {} THEN None
                    ELSE Some(BranchTarget(wrapper, stubBytes,
                                           Least(WideHits(stubBytes)), 64))

\* jmp +0x7FFFFFFF at offset 0: displacement + 0 + 5 leaves the i32 range, and
\* the call ends in a panic or in an address other than the jump's target
C8_Witness ==
    /\ ptrWidth = 64 /\ stubBytes = <<233, 255, 255, 255, 127>>
    /\ unwrapped # Pending
    /\ unwrapped # Some(BranchTarget(wrapper, stubBytes, 0, 64))

\* C9, as stated: on 32-bit, for every buffer, the result of the unwrapper is
\* the target of the lowest-offset 9-byte window of the shape
\* [0xE8, d0..d3, 0x5D, 0xC2, any, 0x00], stub_address + offset + 5 +
\* displacement; a 0xE8 without that epilogue is skipped, and the result is
\* "not found" if no window has the shape.
C9_NarrowTargetOfFirstCall ==
    (ptrWidth = 32 /\ unwrapped # Pending) =>
        unwrapped = IF NarrowHits(stubBytes) = {} THEN None
                    ELSE Some(BranchTarget(wrapper, stubBytes,
                                           Least(NarrowHits(stubBytes)), 32))

\* call +0x7FFFFFFF at offset 0, well-formed epilogue: with overflow checks
\* the addition displacement + 0 + 5 panics
C9_Witness ==
    /\ ptrWidth = 32 /\ stubBytes = <<232, 255, 255, 255, 127, 93, 194, 8, 0>>
    /\ checks.overflow
    /\ unwrapped = Panicked

----------------------------------------------------------------------------
(* Properties of get_module_handle, checked under SpecLocate *)

\* the whole name of a module record: the bytes_length / 2 code units of its
\* BaseDllName, as characters
StoredName(entry) ==
    ToStringLossy(
        SubSeq(entry.BaseDllName.buffer, 1, entry.BaseDllName.bytes_length \div 2))

\* the records whose whole name equals the target when both are uppercased
NameHits(list, name) ==
    {k \in 1..Len(list) : ToUppercase(StoredName(list[k])) = ToUppercase(name)}

\* C10: for every well-formed loaded-module list and every target name,
\* get_module_handle returns the base address of the first module in list
\* order whose whole name equals the target when both are uppercased, and
\* returns None, without a crash, when no module matches, the empty list
\* included.
C10_FirstModuleByUppercasedName ==
    located # Pending =>
        IF NameHits(ldrList, targetName) = {}
        THEN located.kind = "none"
        ELSE /\ located.kind = "some"
             /\ located.addr = ldrList[Least(NameHits(ldrList, targetName))].DllBase

\* the second of two modules is found under a name that differs from the
\* stored one in letter case, after the first one was passed over
C10_Witness ==
    /\ Len(ldrList) = 2
    /\ located = [kind |-> "some", addr |-> ldrList[2].DllBase, visited |-> <<1, 2>>]
    /\ StoredName(ldrList[2]) # targetName
    /\ StoredName(ldrList[2]) # ToUppercase(StoredName(ldrList[2]))

----------------------------------------------------------------------------
(* Progress of the calls, checked under FairSpec *)

\* C11: every registration call eventually ends, either with the return of a
\* token from the resolved registration function or in the panic of the failed
\* resolution, and never both; no caller stays inside a call forever, however
\* the initializers interleave; and every unregistration call that starts once
\* the cache is Ready returns.  A thread is outside a call exactly when it is
\* idle, so "the call thread t is in ends" is "t is again and again idle or
\* panicked"; only an unregistration call that started before the cache was
\* Ready is left out of the progress part.
C11_EveryCallEnds ==
    /\ \A t \in Threads :
          []<>(\/ pc[t] \in {"idle", "panicked"}
               \/ call[t].op = "remove" /\ ~call[t].ready)
    /\ [](\A t \in Threads :
            /\ pc[t] = "idle" <=> ~InCall(t)
            /\ (InCall(t) /\ call[t].op = "remove" /\ call[t].ready) => pc[t] = "forward")
    /\ [][\A t \in Threads :
            (InCall(t) /\ call[t].op = "add" /\ pc'[t] # pc[t]) =>
                /\ pc'[t] \in {"cas", "forward", "idle", "panicked"}
                /\ pc'[t] = "idle" =>
                      /\ pc[t] = "forward" /\ held[t] = cache /\ cache.set
                      /\ Len(chain') = Len(chain) + 1
                      /\ \E e \in Range(chain') :
                            /\ e.token \notin {c.token : c \in Range(chain)}
                            /\ e.token # NullToken
                            /\ \/ e.token \in rawTokens'
                               \/ \E v \in vehs' : v.token = e.token /\ v.thread = t
                /\ pc'[t] = "panicked" =>
                      /\ pc[t] = "init" /\ chain' = chain /\ vehs' = vehs
                      /\ rawTokens' = rawTokens]_vars

\* two registration calls raced through the initializer, and both have
\* returned with a token
C11_Witness ==
    /\ history.resolutions = 2
    /\ Len(chain) = 2
    /\ \A t \in Threads : pc[t] = "idle"

----------------------------------------------------------------------------
(* The lookup steps of one resolution attempt, checked under Spec *)

LookupSteps == <<"module", "export_add", "export_remove", "scan_add", "scan_remove">>

\* the first lookup step that finds nothing in this process
FirstMiss ==
    IF ~process.ntdll THEN "module"
    ELSE CASE process.image = "no_export_add" -> "export_add"
           [] process.image = "no_export_remove" -> "export_remove"
           [] process.image = "no_pattern_add" -> "scan_add"
           [] process.image = "no_pattern_remove" -> "scan_remove"
           [] OTHER -> "none"

\* the lookup steps up to and including `step`
StepsThrough(step) ==
    SubSeq(LookupSteps, 1, CHOOSE k \in 1..Len(LookupSteps) : LookupSteps[k] = step)

\* C12, as stated: within one resolution attempt, once a step finds nothing
\* no later lookup step is executed; a pattern miss on the registration stub
\* is not followed by a scan of the unregistration stub.
C12_StopsAtFirstMiss ==
    (history.resolutions > 0 /\ FirstMiss # "none") =>
        history.steps = StepsThrough(FirstMiss)

\* C12, amended: a miss of the module lookup or of either export lookup ends
\* the attempt at that step, but both stubs are scanned before either result
\* is looked at: a pattern miss on the registration stub is still followed by
\* the scan of the unregistration stub, and only then does the attempt fail.
C12_StopsAtFirstMissExceptScans ==
    (history.resolutions > 0 /\ FirstMiss # "none") =>
        /\ history.steps =
              StepsThrough(IF FirstMiss = "scan_add" THEN "scan_remove" ELSE FirstMiss)
        /\ cache = Unset
        /\ \A t \in Threads : pc[t] \in {"idle", "init", "panicked"}

\* the registration stub has no pattern, and the attempt that failed on it
\* scanned the unregistration stub as well
C12_Witness ==
    /\ process.ntdll /\ process.image = "no_pattern_add"
    /\ history.steps = LookupSteps
    /\ \E t \in Threads : pc[t] = "panicked"

----------------------------------------------------------------------------
(* Arithmetic and bounds of get_wrapped_function, checked under SpecUnwrap *)

\* the offsets of the windows of the build's shape
Hits(bytes, width) == IF width = 64 THEN WideHits(bytes) ELSE NarrowHits(bytes)

\* C13, as stated: whenever a window matches, at offset i with displacement d,
\* negative d and d within i + 5 of the i32 maximum included, the sum
\* d + i + 5 does not overflow in i32 and the unwrapper returns exactly
\* stub_address + i + 5 + d in address-width arithmetic.
C13_SumNeverOverflowsNorMovesTarget ==
    (unwrapped # Pending /\ Hits(stubBytes, ptrWidth) # {}) =>
        LET i == Least(Hits(stubBytes, ptrWidth))
        IN  /\ ~BranchOffset(stubBytes, i).ovf
            /\ unwrapped.kind = "some"
            /\ unwrapped.addr = BranchTarget(wrapper, stubBytes, i, ptrWidth)

\* a backward jump, displacement -256 at offset 0: the negative sum reaches
\* ptr::add as a count above isize::MAX, and the build that checks the
\* precondition aborts
C13_Witness ==
    /\ ptrWidth = 64 /\ stubBytes = <<233, 0, 255, 255, 255>>
    /\ checks.ptr_add
    /\ BranchOffset(stubBytes, 0) = [ovf |-> FALSE, val |-> -251]
    /\ unwrapped = Panicked

\* the offsets of the stub the scan reads: the windows the iterator hands out,
\* up to and including the first one that matches
ScanReads(bytes, width) ==
    LET first == FirstMatch(bytes, width, 0)
        last  == IF first = -1 THEN Len(bytes) - WindowLen(width) ELSE first
    IN  UNION {i..(i + WindowLen(width) - 1) : i \in 0..last}

\* C14: the unwrapper reads only offsets [0, bound) of the stub, and it
\* reports a match only for a window that lies inside the bound as a whole: a
\* branch opcode at an offset above bound - window length (5 wide, 9 narrow)
\* is never reported, and without a match inside the bound the result is
\* "not found", no error.
C14_ScanStaysInsideBound ==
    unwrapped # Pending =>
        LET bound == Len(stubBytes)
            slice == ReadBytes(MemoryAt(wrapper, stubBytes, ptrWidth), wrapper, bound)
        IN  /\ ScanReads(slice, ptrWidth) \subseteq 0..(bound - 1)
            /\ unwrapped = None <=> Hits(stubBytes, ptrWidth) = {}
            /\ unwrapped # None =>
                  Least(Hits(stubBytes, ptrWidth)) + WindowLen(ptrWidth) <= bound

\* the jump opcode is the last byte inside the bound and its displacement lies
\* behind the bound: the window is not looked at
C14_Witness ==
    /\ ptrWidth = 64 /\ stubBytes = <<0, 0, 0, 0, 0, 233>>
    /\ Hits(MemoryAt(wrapper, stubBytes, ptrWidth).memory[wrapper], ptrWidth) = {5, 10}
    /\ unwrapped = None

----------------------------------------------------------------------------
(* The traversal of get_module_handle, checked under SpecLocate *)

\* C15: on every finite circular loaded-module list the traversal ends: it
\* follows the forward links from the list head, examines each module record
\* at most once and in link order, never reads the list head as a record,
\* and stops at the first match or when the link returns to the head, that
\* is after at most as many records as the list has; the list is not
\* modified.
C15_TraversalEndsWithinTheList ==
    /\ [](located # Pending =>
            LET v == located.visited
            IN  /\ Len(v) <= Len(ldrList)
                /\ \A k \in 1..Len(v) : v[k] = k /\ v[k] # ListBase
                /\ located.kind = "some" =>
                      /\ NameHits(ldrList, targetName) # {}
                      /\ Len(v) = Least(NameHits(ldrList, targetName))
                /\ located.kind = "none" =>
                      /\ NameHits(ldrList, targetName) = {}
                      /\ Len(v) = Len(ldrList)
                      /\ Flink(ldrList, Len(v)) = ListBase)
    /\ [][ldrList' = ldrList]_vars

\* the first of two modules matches: the traversal stops there and the second
\* record is not examined
C15_Witness ==
    /\ Len(ldrList) = 2
    /\ NameHits(ldrList, targetName) = {1, 2}
    /\ located.kind = "some"
    /\ located.visited = <<1>>

----------------------------------------------------------------------------
(* The arguments and the states of the registry, checked under Spec *)

\* C16: every registration forwarded for a Veh carries a non-zero
\* FirstHandler exactly when the Veh was built with Order::First and zero
\* exactly when it was built with Order::Last, carries the caller's handler
\* unchanged, and carries the handler_type that every unregistration call
\* carries: a token is released with the type it was registered with.
C16_ForwardedArgumentsFaithful ==
    /\ [](\A id \in VehIds :
            /\ regs[id].order \in Orders
            /\ regs[id].order = "First" <=> regs[id].first # 0
            /\ regs[id].order = "Last" <=> regs[id].first = 0
            /\ \A k \in 1..Len(regs[id].removes) :
                  regs[id].removes[k].type = regs[id].type
            /\ \A other \in VehIds : regs[other].type = regs[id].type)
    /\ [][\A t \in Threads :
            (pc[t] = "forward" /\ call[t].op = "add" /\ call[t].via = "veh"
                /\ pc'[t] = "idle") =>
                LET e == [token |-> FreeToken(chain), handler |-> call[t].handler,
                          id |-> Len(regs) + 1]
                IN  /\ chain' = IF call[t].order = "First" THEN <<e>> \o chain
                                ELSE Append(chain, e)
                    /\ regs'[Len(regs')].handler = call[t].handler
                    /\ regs'[Len(regs')].order = call[t].order]_vars

\* a Veh built with Order::Last was registered with FirstHandler = 0 and has
\* been released with the type it was registered with
C16_Witness ==
    \E id \in VehIds :
        /\ regs[id].order = "Last" /\ regs[id].first = 0
        /\ regs[id].removes = <<[token |-> regs[id].token, type |-> regs[id].type]>>

\* The state of the registry: Ready once the OnceBox holds a pair, Resolving
\* while it holds none and a call is inside get_or_init's initializer or
\* exchange, Uninitialized otherwise.
RegistryState ==
    IF cache.set THEN "Ready"
    ELSE IF \E t \in Threads : pc[t] \in {"init", "cas"} THEN "Resolving"
    ELSE "Uninitialized"

\* C17: the registry goes Uninitialized -> Resolving -> Ready.  A call of
\* either operation on an uninitialized cache starts the resolution, a direct
\* unregistration included; no call is forwarded into a registration or
\* unregistration pointer, and the chain is not touched, while the cache is
\* not Ready; and Ready is never left.  (A failed attempt leaves Resolving for
\* Uninitialized again.)
C17_UninitializedResolvingReady ==
    /\ [](\A t \in Threads : pc[t] = "forward" => RegistryState = "Ready")
    /\ [][/\ <<RegistryState, RegistryState'>> \in
                {<<"Uninitialized", "Resolving">>, <<"Resolving", "Resolving">>,
                 <<"Resolving", "Uninitialized">>, <<"Resolving", "Ready">>,
                 <<"Ready", "Ready">>}
          /\ \A t \in Threads :
                (pc[t] = "idle" /\ pc'[t] # "idle") =>
                    pc'[t] = IF RegistryState = "Ready" THEN "forward" ELSE "init"
          /\ (chain' # chain \/ regs' # regs) => RegistryState = "Ready"
          /\ RegistryState = "Ready" => cache' = cache]_vars

\* a direct unregistration call on the uninitialized cache has started the
\* resolution
C17_Witness ==
    /\ RegistryState = "Resolving"
    /\ history.resolutions = 0
    /\ \E t \in Threads :
          pc[t] = "init" /\ call[t].op = "remove" /\ call[t].via = "raw"

\* C18: in every reachable state in which a Veh exists the cache is Ready;
\* so the drop of a Veh starts with the cache Ready, runs no resolution and
\* does not end in the panic of a failed resolution.
C18_HandleImpliesReady ==
    /\ vehs # {} => cache.set
    /\ \A id \in VehIds : cache.set
    /\ \A t \in Threads :
          (call[t].op = "remove" /\ call[t].via = "veh") =>
              /\ call[t].ready /\ call[t].runs = 0
              /\ pc[t] = "forward"
              /\ cache.set /\ held[t] = cache

\* a Veh was built by the one call that ran the resolution and has been
\* dropped since; the drop ran no resolution
C18_Witness ==
    /\ history.resolutions = 1
    /\ \A t \in Threads : pc[t] = "idle"
    /\ \E id \in VehIds : Dropped(id) /\ Len(regs[id].removes) = 1
    /\ vehs = {} /\ cache.set

============================================================================
